---- MODULE Spec2Model ----
(***************************************************************************)
(* The autonomous control loop of plugin-autonomous and its planners.      *)
(*                                                                         *)
(*   SpecLoop    the two-timer AutonomousLoop (services/AutonomousLoop.ts) *)
(*   SpecPlanner the stateful PlanningModule (plan(), current-plan slot)   *)
(*   SpecCadence the two-timer AutonomousLoop run against a clock, with    *)
(*               units that complete at once                               *)
(*   SpecSingle  the single-timer AutonomousLoop (AutonomousLoop.ts)       *)
(*   SpecReplan  the stateless PlanningModule (generatePlan,               *)
(*               replanIfNeeded) driven by a caller that keeps the         *)
(*               returned plan                                             *)
(*                                                                         *)
(* Every awaited call is a suspension point: the part of a handler up to   *)
(* an await and the part after it are separate actions, and any other      *)
(* handler may run in between.                                             *)
(***************************************************************************)
EXTENDS Integers, Sequences, FiniteSets, Bags, TLC

\* ------------------------------------------------------------------ bounds
MaxTriggers == 3     \* registered trigger units
MaxBatches == 2      \* executeTriggers() / planning invocations kept per kind
MaxTimers == 3       \* interval handles the runtime hands out at one time
MaxClock == 2        \* the clock stops advancing at this reading
MaxPlans == 2        \* plans one planner generates

\* null for a timer handle, for a unit reference and for a call slot.
Null == 0
NoUnit == "null"

\* JavaScript's undefined where a number is expected.
Undefined == -1
NoFrame == [i |-> -1]

\* A trigger unit either resolves on every invocation or rejects on every one.
TriggerUnits == {"ok", "fail"}
\* Two distinguishable planning units, one resolving and one rejecting.
PlanningUnits == {"planOk", "planFail"}

VARIABLES
  \* --- services/AutonomousLoop.ts
  triggers,          \* this.triggers: sequence of trigger units
  planningCallback,  \* this.planningCallback: NoUnit or a planning unit
  loopTimer,         \* this.loopTimer: Null or an interval handle
  planningTimer,     \* this.planningTimer: Null or an interval handle
  isRunning,         \* this.isRunning
  timers,            \* the runtime's armed intervals: {[id, fn]}
  batches,           \* executeTriggers() calls in flight: a bag of frames
  lastBatch,         \* the frame of the last executeTriggers() call that ended
  planRuns,          \* planning invocations in flight: a bag of units
  lastPlanRun,       \* the last planning invocation that ended
  diag,              \* the last console.log message of start() and stop()
  \* --- the clock
  now,               \* what Date.now() returns
  \* --- PlanningModule.ts (the stateful planner)
  currentPlan,       \* this.currentPlan: NoPlan or the Plan object
  isPlanningInProgress,  \* this.isPlanningInProgress
  lastRetired,       \* the Plan object that last left the slot: its ref and status
  issued,            \* the ids of the plans generated so far, in order
  planCalls,         \* plan() invocations suspended at an await: a bag of frames
  planResult,        \* how the promise of the last plan() that ended settled
  plog,              \* the action tag of the last elizaLogger record
  updateReturn,      \* the last updateSubtaskStatus() call: its id, its result
  \* --- services/PlanningModule.ts (the stateless planner) and its caller
  callerPlan,        \* the Plan object the caller holds: NoPlan or a plan
  replanCall,        \* the replanIfNeeded() call suspended at its await
  replanReturn,      \* the promise of the last call made to the module
  rootCreatedAt,     \* createdAt of the plan the caller started with
  replans,           \* the number of plans generatePlan() has built
  \* --- AutonomousLoop.ts (the single-timer loop)
  sTriggers,         \* this.triggers
  sLoopTimer,        \* this.loopTimer: Null or an interval handle
  sIsRunning,        \* this.isRunning
  planningFunction,  \* this.planningFunction: NoUnit or a planning unit
  lastPlanTime,      \* this.lastPlanTime
  planIntervalMs,    \* this.planIntervalMs
  sTimers,           \* the runtime's armed intervals: {[id, ms]}
  ticks,             \* interval callbacks suspended at an await: a bag of frames
  sLast,             \* the action tag last logged, or the method last run
  \* --- the two-timer loop on a clock
  elapsed,           \* the time the runtime's timers go by
  due,               \* for each armed interval handle, when it fires next
  startedAt,         \* elapsed when start() last started the loop
  invoked,           \* invoked[k]: invocations of trigger unit k since then
  planned,           \* invocations of the planning unit since then
  steady,            \* no unit was registered or set since then
  \* --- index.ts (initAutonomousPlugin)
  wiring,            \* what initAutonomousPlugin found and set up
  wLoop,             \* the fields of autonomousLoop
  wTimers,           \* the runtime's armed intervals: a set of handles
  store,             \* the cache: what is under autonomousLoop and currentPlan
  wTriggerRuns,      \* replanning-trigger calls suspended at an await
  wPlanRuns,         \* planning-callback calls suspended at an await
  ended              \* the RUN_ENDED handler has run

loopVars == <<triggers, planningCallback, loopTimer, planningTimer, isRunning,
              timers, batches, lastBatch, planRuns, lastPlanRun, diag>>

plannerVars == <<currentPlan, isPlanningInProgress, lastRetired, issued,
                 planCalls, planResult, plog>>

replanVars == <<callerPlan, replanCall, replanReturn, rootCreatedAt, replans>>

singleVars == <<sTriggers, sLoopTimer, sIsRunning, planningFunction, lastPlanTime,
                planIntervalMs, sTimers, ticks, sLast>>

cadVars == <<elapsed, due, startedAt, invoked, planned, steady>>

wireVars == <<wiring, wLoop, wTimers, store, wTriggerRuns, wPlanRuns, ended>>

vars == <<loopVars, now, plannerVars, updateReturn, replanVars, singleVars, cadVars,
          wireVars>>

\* ------------------------------------------------------- runtime intervals
TimerIds == {t.id : t \in timers}

\* setInterval returns a handle no armed interval has.
FreshTimer(used) == CHOOSE h \in 1..MaxTimers : h \notin used /\ \A g \in 1..(h-1) : g \in used

SetInterval(ts, fn) == ts \cup {[id |-> FreshTimer({t.id : t \in ts}), fn |-> fn]}

ClearInterval(ts, h) == {t \in ts : t.id # h}

\* The handle SetInterval(ts, fn) has just returned.
Armed(ts, fn) == FreshTimer({t.id : t \in ts})

\* --------------------------------------------------- AutonomousLoop (two timers)
LoopInit ==
  /\ triggers = <<>>
  /\ planningCallback = NoUnit
  /\ loopTimer = Null
  /\ planningTimer = Null
  /\ isRunning = FALSE
  /\ timers = {}
  /\ batches = EmptyBag
  /\ lastBatch = NoFrame
  /\ planRuns = EmptyBag
  /\ lastPlanRun = NoFrame
  /\ diag = ""

\* start(): the early return of line 64.
StartGuardOff == FALSE
StartGuard == isRunning

Start ==
  IF StartGuard
  THEN /\ diag' = "AutonomousLoop is already running"
       /\ UNCHANGED <<triggers, planningCallback, loopTimer, planningTimer,
                      isRunning, timers, batches, lastBatch, planRuns, lastPlanRun>>
  ELSE /\ Cardinality(timers) + 2 <= MaxTimers
       /\ isRunning' = TRUE
       /\ diag' = "Starting autonomous loop"
       /\ loopTimer' = Armed(timers, "triggers")
       /\ LET ts == SetInterval(timers, "triggers") IN
          IF planningCallback # NoUnit
          THEN /\ planningTimer' = Armed(ts, "planning")
               /\ timers' = SetInterval(ts, "planning")
          ELSE /\ planningTimer' = planningTimer
               /\ timers' = ts
       /\ UNCHANGED <<triggers, planningCallback, batches, lastBatch, planRuns, lastPlanRun>>

\* A stop() that also empties the trigger registry.
StopClearsRegistry ==
  IF ~isRunning
  THEN /\ diag' = "AutonomousLoop is not running"
       /\ UNCHANGED <<triggers, planningCallback, loopTimer, planningTimer,
                      isRunning, timers, batches, lastBatch, planRuns, lastPlanRun>>
  ELSE /\ diag' = "Stopping autonomous loop"
       /\ timers' = {}
       /\ loopTimer' = Null
       /\ planningTimer' = Null
       /\ isRunning' = FALSE
       /\ triggers' = <<>>
       /\ UNCHANGED <<planningCallback, batches, lastBatch, planRuns, lastPlanRun>>

\* A stop() that clears the trigger interval only.
StopKeepsPlanningTimer ==
  IF ~isRunning
  THEN /\ diag' = "AutonomousLoop is not running"
       /\ UNCHANGED <<triggers, planningCallback, loopTimer, planningTimer,
                      isRunning, timers, batches, lastBatch, planRuns, lastPlanRun>>
  ELSE /\ diag' = "Stopping autonomous loop"
       /\ timers' = IF loopTimer # Null
                    THEN ClearInterval(timers, loopTimer) ELSE timers
       /\ loopTimer' = Null
       /\ planningTimer' = Null
       /\ isRunning' = FALSE
       /\ UNCHANGED <<triggers, planningCallback, batches, lastBatch, planRuns, lastPlanRun>>

\* stop()
Stop ==
  IF ~isRunning
  THEN /\ diag' = "AutonomousLoop is not running"
       /\ UNCHANGED <<triggers, planningCallback, loopTimer, planningTimer,
                      isRunning, timers, batches, lastBatch, planRuns, lastPlanRun>>
  ELSE /\ diag' = "Stopping autonomous loop"
       /\ timers' = LET t1 == IF loopTimer # Null
                              THEN ClearInterval(timers, loopTimer) ELSE timers
                    IN IF planningTimer # Null
                       THEN ClearInterval(t1, planningTimer) ELSE t1
       /\ loopTimer' = Null
       /\ planningTimer' = Null
       /\ isRunning' = FALSE
       /\ UNCHANGED <<triggers, planningCallback, batches, lastBatch, planRuns, lastPlanRun>>

RegisterTrigger(u) ==
  /\ Len(triggers) < MaxTriggers
  /\ triggers' = Append(triggers, u)
  /\ UNCHANGED <<planningCallback, loopTimer, planningTimer, isRunning, timers,
                 batches, lastBatch, planRuns, lastPlanRun, diag>>

\* A setPlanningCallback() that arms an interval whenever the loop runs.
SetPlanningCallbackRearms(p) ==
  /\ planningCallback' = p
  /\ IF isRunning
     THEN /\ Cardinality(timers) < MaxTimers
          /\ planningTimer' = Armed(timers, "planning")
          /\ timers' = SetInterval(timers, "planning")
     ELSE UNCHANGED <<planningTimer, timers>>
  /\ UNCHANGED <<triggers, loopTimer, isRunning, batches, lastBatch, planRuns,
                 lastPlanRun, diag>>

\* setPlanningCallback(planningFn)
SetPlanningCallback(p) ==
  /\ planningCallback' = p
  /\ IF isRunning /\ planningTimer = Null
     THEN /\ Cardinality(timers) < MaxTimers
          /\ planningTimer' = Armed(timers, "planning")
          /\ timers' = SetInterval(timers, "planning")
     ELSE UNCHANGED <<planningTimer, timers>>
  /\ UNCHANGED <<triggers, loopTimer, isRunning, batches, lastBatch, planRuns,
                 lastPlanRun, diag>>

\* ------------------------------------------------------------ executeTriggers
\* A frame of executeTriggers(): i is the index (1-based) of the unit being
\* awaited (of the last unit visited, once the call is over), calls[k] the
\* invocations of unit k made by this call, reported the console.error calls
\* it made, len the registry's length when the call ended.
NewFrame == [i |-> 0, calls |-> [k \in 1..MaxTriggers |-> 0], reported |-> 0,
             over |-> FALSE, len |-> 0]

\* An executeTriggers() that fans out: it invokes every unit from index i on
\* at once and then awaits them one by one.
LoopFromFanOut(f, i) ==
  IF i <= Len(triggers)
  THEN [f EXCEPT !.i = i,
                 !.calls = [k \in 1..MaxTriggers |->
                              IF k >= i /\ k <= Len(triggers) /\ f.calls[k] = 0
                              THEN 1 ELSE f.calls[k]]]
  ELSE [f EXCEPT !.i = i - 1, !.over = TRUE, !.len = Len(triggers)]

\* The for-of loop over this.triggers, about to visit index i of the live
\* array: it invokes the unit and awaits it, or ends past the last unit.
LoopFrom(f, i) ==
  IF i <= Len(triggers)
  THEN [f EXCEPT !.i = i, !.calls[i] = @ + 1]
  ELSE [f EXCEPT !.i = i - 1, !.over = TRUE, !.len = Len(triggers)]

\* The awaited unit u has settled: the try/catch of lines 141-146, then the
\* next iteration.
AfterUnitNoCatch(f, u) ==
  IF u = "fail"
  THEN [f EXCEPT !.over = TRUE, !.len = Len(triggers)]
  ELSE LoopFrom(f, f.i + 1)
AfterUnit(f, u) ==
  LoopFrom(IF u = "fail" THEN [f EXCEPT !.reported = @ + 1] ELSE f, f.i + 1)

\* A call of executeTriggers() that has come to frame f: still pending, it
\* joins (or stays among) the calls in flight; over, it is the last call ended.
Landed(rest, f) ==
  IF f.over
  THEN /\ batches' = rest
       /\ lastBatch' = f
  ELSE /\ batches' = rest (+) SetToBag({f})
       /\ lastBatch' = lastBatch

\* An interval callback that skips its tick while an earlier one is pending.
TriggerFireUnlessBusy(t) ==
  /\ t \in timers /\ t.fn = "triggers"
  /\ batches = EmptyBag
  /\ Landed(batches, LoopFrom(NewFrame, 1))
  /\ UNCHANGED <<triggers, planningCallback, loopTimer, planningTimer, isRunning,
                 timers, planRuns, lastPlanRun, diag>>

\* The trigger interval t fires: async () => { await this.executeTriggers() }.
TriggerFire(t) ==
  /\ t \in timers /\ t.fn = "triggers"
  /\ BagCardinality(batches) < MaxBatches
  /\ Landed(batches, LoopFrom(NewFrame, 1))
  /\ UNCHANGED <<triggers, planningCallback, loopTimer, planningTimer, isRunning,
                 timers, planRuns, lastPlanRun, diag>>

\* The unit awaited by a call in flight, at frame f, resolves or rejects.
TriggerSettle(f) ==
  /\ BagIn(f, batches)
  /\ Landed(batches (-) SetToBag({f}), AfterUnit(f, triggers[f.i]))
  /\ UNCHANGED <<triggers, planningCallback, loopTimer, planningTimer, isRunning,
                 timers, planRuns, lastPlanRun, diag>>

\* ---------------------------------------------------- executePlanningCallback
\* The planning interval fires: the callback set at that moment is invoked
\* (line 155 returns at once when none is set).
PlanningFire(t) ==
  /\ t \in timers /\ t.fn = "planning"
  /\ BagCardinality(planRuns) < MaxBatches
  /\ IF planningCallback = NoUnit
     THEN UNCHANGED <<planRuns, lastPlanRun>>
     ELSE /\ planRuns' = planRuns (+) SetToBag({planningCallback})
          /\ lastPlanRun' = lastPlanRun
  /\ UNCHANGED <<triggers, planningCallback, loopTimer, planningTimer, isRunning,
                 timers, batches, lastBatch, diag>>

\* An executePlanningCallback() without its try/catch: the rejection leaves
\* the interval callback unhandled and takes the runtime's intervals down.
PlanningSettleUncaught(p) ==
  /\ BagIn(p, planRuns)
  /\ planRuns' = planRuns (-) SetToBag({p})
  /\ lastPlanRun' = [i |-> 0, unit |-> p, reported |-> 0]
  /\ timers' = IF p = "planFail" THEN {} ELSE timers
  /\ UNCHANGED <<triggers, planningCallback, loopTimer, planningTimer, isRunning,
                 batches, lastBatch, diag>>

\* The planning unit p awaited by an invocation in flight settles; a
\* rejection is caught and reported (lines 157-161).
PlanningSettle(p) ==
  /\ BagIn(p, planRuns)
  /\ planRuns' = planRuns (-) SetToBag({p})
  /\ lastPlanRun' = [i |-> 0, unit |-> p,
                     reported |-> IF p = "planFail" THEN 1 ELSE 0]
  /\ UNCHANGED <<triggers, planningCallback, loopTimer, planningTimer, isRunning,
                 timers, batches, lastBatch, diag>>

LoopNext ==
  \/ Start /\ UNCHANGED <<now, plannerVars, updateReturn, replanVars, singleVars, cadVars, wireVars>>
  \/ Stop /\ UNCHANGED <<now, plannerVars, updateReturn, replanVars, singleVars, cadVars, wireVars>>
  \/ \E u \in TriggerUnits : RegisterTrigger(u) /\ UNCHANGED <<now, plannerVars, updateReturn, replanVars, singleVars, cadVars, wireVars>>
  \/ \E p \in PlanningUnits : SetPlanningCallback(p) /\ UNCHANGED <<now, plannerVars, updateReturn, replanVars, singleVars, cadVars, wireVars>>
  \/ \E t \in timers : TriggerFire(t) /\ UNCHANGED <<now, plannerVars, updateReturn, replanVars, singleVars, cadVars, wireVars>>
  \/ \E f \in BagToSet(batches) : TriggerSettle(f) /\ UNCHANGED <<now, plannerVars, updateReturn, replanVars, singleVars, cadVars, wireVars>>
  \/ \E t \in timers : PlanningFire(t) /\ UNCHANGED <<now, plannerVars, updateReturn, replanVars, singleVars, cadVars, wireVars>>
  \/ \E p \in BagToSet(planRuns) : PlanningSettle(p) /\ UNCHANGED <<now, plannerVars, updateReturn, replanVars, singleVars, cadVars, wireVars>>

\* ------------------------------------------------ PlanningModule (stateful)
NoPlan == [ref |-> 0]

PlannerInit ==
  /\ currentPlan = NoPlan
  /\ isPlanningInProgress = FALSE
  /\ lastRetired = NoPlan
  /\ issued = <<>>
  /\ planCalls = EmptyBag
  /\ planResult = "none"
  /\ plog = ""

\* What is kept of a plan object once it has left the slot.
Retired(plan) == [ref |-> plan.ref, status |-> plan.status]

\* The planner's plan objects, clock and log as one value: the synchronous
\* stretches of plan() are functions on it.
PlannerState == [cur |-> currentPlan, old |-> lastRetired, issued |-> issued,
                 now |-> now, log |-> plog]

Install(st) ==
  /\ currentPlan' = st.cur
  /\ lastRetired' = st.old
  /\ issued' = st.issued
  /\ now' = st.now
  /\ plog' = st.log

\* How a call of generatePlan() can go: 0, it throws before the plan is built;
\* k in 1..6, it succeeds and the first k of its six Date.now() reads return
\* the same reading, the clock ticking once before the others.
GenOutcomes(st) == {0, 6} \cup (IF st.now < MaxClock THEN 1..5 ELSE {})

\* The j-th Date.now() read of a generation of outcome k.
ReadNow(st, k, j) == IF j <= k THEN st.now ELSE st.now + 1

\* The plan literal of lines 123-142: `plan-${t}`, `task-${t}-1`,
\* `task-${t}-2` depending on `task-${t}-1`.
NewPlan(st, k) ==
  [ref |-> Len(st.issued) + 1,
   id |-> ReadNow(st, k, 1),
   subtasks |-> <<[id |-> <<ReadNow(st, k, 2), 1>>, status |-> "pending",
                   dependencies |-> <<>>],
                  [id |-> <<ReadNow(st, k, 3), 2>>, status |-> "pending",
                   dependencies |-> << <<ReadNow(st, k, 4), 1>> >>]>>,
   createdAt |-> ReadNow(st, k, 5),
   updatedAt |-> ReadNow(st, k, 6),
   status |-> "active"]

\* generatePlan(): the new plan takes the slot, or the call throws and the
\* slot keeps what it held.
GeneratePlan(st, k) ==
  IF k = 0
  THEN [st EXCEPT !.log = "generate_plan_error"]
  ELSE [st EXCEPT !.cur = NewPlan(st, k),
                  !.old = IF st.cur # NoPlan THEN Retired(st.cur) ELSE st.old,
                  !.issued = Append(st.issued, NewPlan(st, k).id),
                  !.now = ReadNow(st, k, 6),
                  !.log = "plan_generated"]

\* What checkPlanProgress() can hand back: a list of discrepancies, each a
\* text that starts with a severity tag. (The stub of lines 178-180 returns
\* the empty list; a real check, or the tests' replacement, returns others.)
Discrepancies ==
  { <<>>,
    << <<"MINOR:", "Small state deviation detected">> >>,
    << <<"MINOR:", "Small state deviation detected">>,
       <<"CRITICAL:", "Major state deviation detected">> >> }

\* A severity test that takes any discrepancy as a reason to replan.
ShouldReplanOnAny(discrepancies) == Len(discrepancies) > 0

\* A severity test that looks at the first discrepancy only.
ShouldReplanFirstOnly(discrepancies) ==
  Len(discrepancies) > 0 /\ discrepancies[1][1] = "CRITICAL:"

\* d.startsWith("CRITICAL:") for some d of the list.
ShouldReplan(discrepancies) ==
  \E j \in 1..Len(discrepancies) : discrepancies[j][1] = "CRITICAL:"

\* A completion test that takes a failed subtask for a finished one.
IsAllSubtasksSettled(plan) ==
  /\ plan # NoPlan
  /\ \A j \in 1..Len(plan.subtasks) :
       plan.subtasks[j].status \in {"completed", "failed"}

\* subtasks.every(task => task.status === "completed")
IsAllSubtasksCompleted(plan) ==
  /\ plan # NoPlan
  /\ \A j \in 1..Len(plan.subtasks) : plan.subtasks[j].status = "completed"

\* completePlan() without its last statement: mark and log only.
CompletePlanKeepsSlot(st) ==
  IF st.cur = NoPlan
  THEN st
  ELSE [st EXCEPT !.cur = [st.cur EXCEPT !.status = "completed",
                                         !.updatedAt = st.now],
                  !.log = "plan_completed"]

\* completePlan(): mark, log, clear the slot.
CompletePlan(st) ==
  IF st.cur = NoPlan
  THEN st
  ELSE [st EXCEPT !.old = Retired([st.cur EXCEPT !.status = "completed",
                                                 !.updatedAt = st.now]),
                  !.cur = NoPlan,
                  !.log = "plan_completed"]

\* Lines 94-97 of plan().
CompletionCheck(st) ==
  IF st.cur # NoPlan /\ IsAllSubtasksCompleted(st.cur)
  THEN CompletePlan(st)
  ELSE st

\* handleDiscrepancies() up to its await: abandon the current plan and
\* generate (outcome k) when a discrepancy is critical.
HandleDiscrepancies(st, discrepancies, k) ==
  LET st1 == [st EXCEPT !.log = "handle_discrepancies"] IN
  IF ShouldReplan(discrepancies)
  THEN GeneratePlan(
         IF st1.cur # NoPlan
         THEN [st1 EXCEPT !.cur = [st1.cur EXCEPT !.status = "abandoned",
                                                  !.updatedAt = st1.now]]
         ELSE st1, k)
  ELSE st1

\* The guard of line 69.
PlanGuardOff == FALSE
PlanGuard == isPlanningInProgress

\* A frame of plan() suspended at an await. pc names the awaited call, err
\* says it rejected, discrepancies is what the drift check returned; start
\* and nIssued are the current plan (its ref, its status, whether all its
\* subtasks were completed) and the number of plans generated when the
\* invocation began.
Frame(pc, err, discrepancies) ==
  [pc |-> pc, err |-> err, discrepancies |-> discrepancies,
   start |-> IF currentPlan = NoPlan
             THEN [ref |-> 0, status |-> "none", allDone |-> FALSE]
             ELSE [ref |-> currentPlan.ref, status |-> currentPlan.status,
                   allDone |-> IsAllSubtasksCompleted(currentPlan)],
   nIssued |-> Len(issued)]

\* A plan() whose skip path runs the finally block: the flag is lowered.
PlanEnterSkipLowersFlag ==
  IF PlanGuard
  THEN /\ plog' = "planning_skipped"
       /\ isPlanningInProgress' = FALSE
       /\ UNCHANGED <<now, currentPlan, lastRetired, issued, planCalls, planResult>>
  ELSE /\ BagCardinality(planCalls) < MaxBatches
       /\ isPlanningInProgress' = TRUE
       /\ planResult' = planResult
       /\ IF currentPlan = NoPlan
          THEN /\ Len(issued) < MaxPlans
               /\ \E k \in GenOutcomes(PlannerState) :
                    /\ Install(GeneratePlan([PlannerState EXCEPT !.log = "generate_plan"], k))
                    /\ planCalls' = planCalls (+) SetToBag({Frame("generatePlan", k = 0, <<>>)})
          ELSE \E err \in BOOLEAN, d \in Discrepancies :
                    /\ err => d = <<>>
                    /\ Install([PlannerState EXCEPT !.log = "check_plan_progress"])
                    /\ planCalls' = planCalls (+) SetToBag({Frame("checkPlanProgress", err, d)})

\* plan() is called: skipped while the flag is up; else the flag goes up and
\* the invocation runs to its first await, of generatePlan() (empty slot) or
\* of checkPlanProgress().
PlanEnter ==
  IF PlanGuard
  THEN /\ plog' = "planning_skipped"
       /\ UNCHANGED <<now, currentPlan, isPlanningInProgress, lastRetired, issued,
                      planCalls, planResult>>
  ELSE /\ BagCardinality(planCalls) < MaxBatches
       /\ isPlanningInProgress' = TRUE
       /\ planResult' = planResult
       /\ IF currentPlan = NoPlan
          THEN /\ Len(issued) < MaxPlans
               /\ \E k \in GenOutcomes(PlannerState) :
                    /\ Install(GeneratePlan([PlannerState EXCEPT !.log = "generate_plan"], k))
                    /\ planCalls' = planCalls (+) SetToBag({Frame("generatePlan", k = 0, <<>>)})
          ELSE \E err \in BOOLEAN, d \in Discrepancies :
                    /\ err => d = <<>>
                    /\ Install([PlannerState EXCEPT !.log = "check_plan_progress"])
                    /\ planCalls' = planCalls (+) SetToBag({Frame("checkPlanProgress", err, d)})

\* The catch and finally blocks of plan(), and its return.
FinishNoFinally(f, st, err) ==
  /\ Install(IF err THEN [st EXCEPT !.log = "planning_error"] ELSE st)
  /\ isPlanningInProgress' = (IF err THEN isPlanningInProgress ELSE FALSE)
  /\ planResult' = "resolved"
  /\ planCalls' = planCalls (-) SetToBag({f})
Finish(f, st, err) ==
  /\ Install(IF err THEN [st EXCEPT !.log = "planning_error"] ELSE st)
  /\ isPlanningInProgress' = FALSE
  /\ planResult' = "resolved"
  /\ planCalls' = planCalls (-) SetToBag({f})

\* A plan() without the return of line 83: after generating it falls through
\* to the completion check.
AfterGenerateFallsThrough(f) ==
  /\ BagIn(f, planCalls) /\ f.pc = "generatePlan"
  /\ IF f.err
     THEN Finish(f, PlannerState, TRUE)
     ELSE Finish(f, CompletionCheck(PlannerState), FALSE)

\* The await of generatePlan() at line 82 is over.
AfterGenerate(f) ==
  /\ BagIn(f, planCalls) /\ f.pc = "generatePlan"
  /\ Finish(f, PlannerState, f.err)

\* The await of checkPlanProgress() at line 87 is over.
AfterCheck(f) ==
  /\ BagIn(f, planCalls) /\ f.pc = "checkPlanProgress"
  /\ IF f.err
     THEN Finish(f, PlannerState, TRUE)
     ELSE IF Len(f.discrepancies) > 0
     THEN /\ ShouldReplan(f.discrepancies) => Len(issued) < MaxPlans
          /\ \E k \in GenOutcomes(PlannerState) :
               /\ ~ShouldReplan(f.discrepancies) => k = 6
               /\ Install(HandleDiscrepancies(PlannerState, f.discrepancies, k))
               /\ planCalls' = (planCalls (-) SetToBag({f})) (+)
                    SetToBag({[f EXCEPT !.pc = "handleDiscrepancies",
                                        !.err = ShouldReplan(f.discrepancies) /\ k = 0]})
               /\ UNCHANGED <<isPlanningInProgress, planResult>>
     ELSE Finish(f, CompletionCheck(PlannerState), FALSE)

\* The await of handleDiscrepancies() at line 91 is over.
AfterHandle(f) ==
  /\ BagIn(f, planCalls) /\ f.pc = "handleDiscrepancies"
  /\ IF f.err
     THEN Finish(f, PlannerState, TRUE)
     ELSE Finish(f, CompletionCheck(PlannerState), FALSE)

\* An id no subtask has.
NoSuchId == <<0, 0>>

SubtaskIds(plan) ==
  IF plan = NoPlan THEN {} ELSE {plan.subtasks[j].id : j \in 1..Len(plan.subtasks)}

\* A find that falls back on the first subtask.
FindOrFirst(plan, subtaskId) ==
  IF plan = NoPlan THEN 0
  ELSE IF subtaskId \in SubtaskIds(plan)
  THEN CHOOSE j \in 1..Len(plan.subtasks) : plan.subtasks[j].id = subtaskId
  ELSE 1

\* subtasks.find(task => task.id === subtaskId): the first index, or 0.
Find(plan, subtaskId) ==
  IF subtaskId \in SubtaskIds(plan)
  THEN CHOOSE j \in 1..Len(plan.subtasks) :
         /\ plan.subtasks[j].id = subtaskId
         /\ \A i \in 1..(j - 1) : plan.subtasks[i].id # subtaskId
  ELSE 0

Status == {"pending", "in_progress", "completed", "failed"}

\* task.updatedAt read from a subtask object: the stateful planner's Subtask
\* (lines 15-20) declares no such property and no code sets one.
UpdatedAtOf(task) ==
  IF "updatedAt" \in DOMAIN task THEN task.updatedAt ELSE Undefined

UpdateSubtaskStatus(subtaskId, status) ==
  IF currentPlan = NoPlan \/ Find(currentPlan, subtaskId) = 0
  THEN /\ updateReturn' = [called |-> TRUE, id |-> subtaskId, ok |-> FALSE]
       /\ UNCHANGED <<now, plannerVars>>
  ELSE /\ currentPlan' = [currentPlan EXCEPT
                            !.subtasks[Find(currentPlan, subtaskId)].status = status,
                            !.updatedAt = now]
       /\ plog' = "update_subtask_status"
       /\ updateReturn' = [called |-> TRUE, id |-> subtaskId, ok |-> TRUE]
       /\ UNCHANGED <<now, isPlanningInProgress, lastRetired, issued, planCalls,
                      planResult>>

\* A millisecond passes.
Tick ==
  /\ now < MaxClock
  /\ now' = now + 1

PlannerNext ==
  \/ PlanEnter /\ UNCHANGED <<loopVars, replanVars, updateReturn, singleVars, cadVars, wireVars>>
  \/ \E f \in BagToSet(planCalls) : AfterGenerate(f) /\ UNCHANGED <<loopVars, replanVars, updateReturn, singleVars, cadVars, wireVars>>
  \/ \E f \in BagToSet(planCalls) : AfterCheck(f) /\ UNCHANGED <<loopVars, replanVars, updateReturn, singleVars, cadVars, wireVars>>
  \/ \E f \in BagToSet(planCalls) : AfterHandle(f) /\ UNCHANGED <<loopVars, replanVars, updateReturn, singleVars, cadVars, wireVars>>
  \/ \E id \in SubtaskIds(currentPlan) \cup {NoSuchId}, st \in Status :
       UpdateSubtaskStatus(id, st) /\ UNCHANGED <<loopVars, replanVars, singleVars, cadVars, wireVars>>
  \/ Tick /\ UNCHANGED <<loopVars, plannerVars, updateReturn, replanVars, singleVars, cadVars, wireVars>>

\* ------------------------------------------------- the stateless planner
\* services/PlanningModule.ts keeps no state: the caller holds the plan and
\* hands it to replanIfNeeded().
MaxReplans == 2
RandRange == 2

\* plan.metadata absent, and the metadata a caller may bring of its own.
NoMeta == [defined |-> FALSE]
ForeignMeta ==
  [defined |-> TRUE, previousPlanId |-> <<>>, replanReason |-> "",
   originalPlanCreatedAt |-> Undefined, originalSource |-> "test"]

NoReplan == [pending |-> FALSE]

ReplanInit ==
  /\ callerPlan = NoPlan
  /\ replanCall = NoReplan
  /\ replanReturn = [kind |-> "none"]
  /\ rootCreatedAt = Undefined
  /\ replans = 0

\* generatePlan() reads Date.now() twelve times. In a call of outcome k the
\* first k reads return the same reading and the clock has ticked once before
\* the others.
GenTicks == IF now < MaxClock THEN 1..12 ELSE {12}
DateNow(k, j) == IF j <= k THEN now ELSE now + 1

\* The n-th subtask literal of generatePlan(): `subtask-${t}-${n}`.
StatelessSubtask(k, n) ==
  [id |-> <<DateNow(k, 3 * n - 1), n>>, status |-> "pending",
   createdAt |-> DateNow(k, 3 * n), updatedAt |-> DateNow(k, 3 * n + 1)]

\* generatePlan(state): a new Plan object (ref) with id `plan-${t}-${r}`, r
\* what Math.floor(Math.random() * 1000) gave.
StatelessGeneratePlan(ref, k, r) ==
  [ref |-> ref,
   id |-> <<DateNow(k, 1), r>>,
   subtasks |-> <<StatelessSubtask(k, 1), StatelessSubtask(k, 2),
                  StatelessSubtask(k, 3)>>,
   status |-> "created",
   createdAt |-> DateNow(k, 11),
   updatedAt |-> DateNow(k, 12),
   metadata |-> NoMeta]

\* currentPlan.metadata?.originalPlanCreatedAt
MetaOriginal(metadata) ==
  IF metadata.defined THEN metadata.originalPlanCreatedAt ELSE Undefined

\* a || b on numbers: b when a is undefined or 0.
OrElse(a, b) == IF a = Undefined \/ a = 0 THEN b ELSE a

\* The metadata literal with previousPlanId taken from the new plan.
LineageOfSelf(newPlan, plan) ==
  [defined |-> TRUE,
   previousPlanId |-> newPlan.id,
   replanReason |-> "Failed tasks detected",
   originalPlanCreatedAt |-> OrElse(MetaOriginal(plan.metadata), plan.createdAt)]

\* The metadata literal replanIfNeeded() attaches to the new plan.
Lineage(newPlan, plan) ==
  [defined |-> TRUE,
   previousPlanId |-> plan.id,
   replanReason |-> "Failed tasks detected",
   originalPlanCreatedAt |-> OrElse(MetaOriginal(plan.metadata), plan.createdAt)]

\* Some subtask is not completed.
HasUnfinishedTasks(plan) ==
  \E j \in 1..Len(plan.subtasks) : plan.subtasks[j].status # "completed"

\* currentPlan.subtasks.some(task => task.status === 'failed')
HasFailedTasks(plan) ==
  \E j \in 1..Len(plan.subtasks) : plan.subtasks[j].status = "failed"

\* The age of the plan the caller of the "outdated" test builds: 48 hours.
TwoDays == 172800000

\* The times a caller stamps its plan with: zero, the reading of the clock,
\* or two days before it.
CallerStamps == {0, now, now - TwoDays}

\* The plan literal a caller builds at time c0: two subtasks, no lineage.
CallerMakesPlan(c0, metadata) ==
  /\ callerPlan = NoPlan
  /\ callerPlan' =
       [ref |-> 1,
        id |-> <<0, 0>>,
        subtasks |-> [n \in 1..2 |->
                        [id |-> <<0, n>>, status |-> "pending",
                         createdAt |-> c0, updatedAt |-> c0]],
        status |-> "in_progress",
        createdAt |-> c0,
        updatedAt |-> c0,
        metadata |-> metadata]
  /\ rootCreatedAt' = c0
  /\ UNCHANGED <<replanCall, replanReturn, replans>>

\* The subtask statuses a caller's plan can have when it is handed over: any
\* status for the first subtask, pending or failed for the second, pending
\* for the others.
StatusVectors(n) ==
  {v \in [1..n -> Status] :
     \A j \in 2..n : v[j] = "pending" \/ (j = 2 /\ v[j] = "failed")}

WithStatuses(plan, sts) ==
  [plan EXCEPT !.subtasks =
     [j \in 1..Len(plan.subtasks) |-> [plan.subtasks[j] EXCEPT !.status = sts[j]]]]

\* A filter that misses the first subtask.
CountSkipsFirst(plan, status) ==
  Cardinality({j \in 2..Len(plan.subtasks) : plan.subtasks[j].status = status})

\* The four counts monitorPlan() logs: pending, in progress, completed, failed.
Count(plan, status) ==
  Cardinality({j \in 1..Len(plan.subtasks) : plan.subtasks[j].status = status})

\* What monitorPlan() writes to the console.
MonitorLog(plan) ==
  <<plan.id, Len(plan.subtasks), Count(plan, "pending"), Count(plan, "in_progress"),
    Count(plan, "completed"), Count(plan, "failed")>>

\* monitorPlan(null) rejects.
MonitorNull ==
  /\ callerPlan = NoPlan
  /\ replanReturn' = [kind |-> "rejected", call |-> "monitorPlan",
                      error |-> "Invalid plan provided"]
  /\ UNCHANGED <<now, callerPlan, replanCall, rootCreatedAt, replans>>

\* A monitorPlan() that stamps the plan it looked at.
MonitorPlanTouches(sts) ==
  LET given == WithStatuses(callerPlan, sts) IN
  /\ callerPlan # NoPlan
  /\ ~replanCall.pending
  /\ callerPlan' = [given EXCEPT !.updatedAt = now + 1]
  /\ replanReturn' = [kind |-> "monitored", arg |-> given, log |-> MonitorLog(given)]
  /\ UNCHANGED <<now, replanCall, rootCreatedAt, replans>>

\* monitorPlan(plan): the caller's plan, its subtasks in statuses sts, is
\* handed over; its id, its length and the four counts are logged.
MonitorPlan(sts) ==
  LET given == WithStatuses(callerPlan, sts) IN
  /\ callerPlan # NoPlan
  /\ ~replanCall.pending
  /\ callerPlan' = given
  /\ replanReturn' = [kind |-> "monitored", arg |-> given, log |-> MonitorLog(given)]
  /\ UNCHANGED <<now, replanCall, rootCreatedAt, replans>>

\* A replanIfNeeded(state, null) that hands back nothing instead of rejecting.
ReplanNullResolves ==
  /\ callerPlan = NoPlan
  /\ replanReturn' = [kind |-> "resolved", arg |-> NoPlan, res |-> NoPlan, gen |-> FALSE]
  /\ UNCHANGED <<now, callerPlan, replanCall, rootCreatedAt, replans>>

\* replanIfNeeded(state, null) rejects.
ReplanNull ==
  /\ callerPlan = NoPlan
  /\ replanReturn' = [kind |-> "rejected", call |-> "replanIfNeeded",
                      error |-> "Invalid plan provided"]
  /\ UNCHANGED <<now, callerPlan, replanCall, rootCreatedAt, replans>>

\* replanIfNeeded(state, currentPlan) up to its return or its await: the
\* caller's plan, its subtasks in statuses sts, is handed over.
ReplanIfNeeded(sts) ==
  LET given == WithStatuses(callerPlan, sts) IN
  /\ callerPlan # NoPlan
  /\ ~replanCall.pending
  /\ callerPlan' = given
  /\ IF HasFailedTasks(given)
     THEN /\ replans < MaxReplans
          /\ \E k \in GenTicks, r \in 0..(RandRange - 1) :
               /\ replanCall' = [pending |-> TRUE, arg |-> given,
                                 newPlan |-> StatelessGeneratePlan(replans + 2, k, r)]
               /\ now' = DateNow(k, 12)
          /\ replans' = replans + 1
          /\ replanReturn' = [kind |-> "pending"]
          /\ UNCHANGED rootCreatedAt
     ELSE /\ replanReturn' = [kind |-> "resolved", arg |-> given, res |-> given,
                              gen |-> FALSE]
          /\ UNCHANGED <<now, replanCall, rootCreatedAt, replans>>

\* The await of generatePlan() is over: the lineage is attached, the new plan
\* returned, and the caller takes it as its plan.
ReplanResume ==
  LET newPlan == [replanCall.newPlan EXCEPT
                    !.metadata = Lineage(replanCall.newPlan, callerPlan)] IN
  /\ replanCall.pending
  /\ replanReturn' = [kind |-> "resolved", arg |-> replanCall.arg,
                      res |-> newPlan, gen |-> TRUE, old |-> callerPlan]
  /\ callerPlan' = newPlan
  /\ replanCall' = NoReplan
  /\ UNCHANGED <<now, rootCreatedAt, replans>>

ReplanNext ==
  \/ \E c0 \in CallerStamps, metadata \in {NoMeta, ForeignMeta} :
       CallerMakesPlan(c0, metadata) /\ UNCHANGED <<loopVars, now, plannerVars, updateReturn, singleVars, cadVars, wireVars>>
  \/ ReplanNull /\ UNCHANGED <<loopVars, plannerVars, updateReturn, singleVars, cadVars, wireVars>>
  \/ MonitorNull /\ UNCHANGED <<loopVars, plannerVars, updateReturn, singleVars, cadVars, wireVars>>
  \/ \E sts \in StatusVectors(IF callerPlan = NoPlan THEN 0 ELSE Len(callerPlan.subtasks)) :
       MonitorPlan(sts) /\ UNCHANGED <<loopVars, plannerVars, updateReturn, singleVars, cadVars, wireVars>>
  \/ \E sts \in StatusVectors(IF callerPlan = NoPlan THEN 0 ELSE Len(callerPlan.subtasks)) :
       ReplanIfNeeded(sts) /\ UNCHANGED <<loopVars, plannerVars, updateReturn, singleVars, cadVars, wireVars>>
  \/ ReplanResume /\ UNCHANGED <<loopVars, plannerVars, updateReturn, singleVars, cadVars, wireVars>>
  \/ Tick /\ UNCHANGED <<loopVars, plannerVars, updateReturn, replanVars, singleVars, cadVars, wireVars>>

\* ------------------------------------------- AutonomousLoop (single timer)
\* AutonomousLoop.ts drives triggers and planning from one interval.
DefaultLoopIntervalMs == 5000
DefaultPlanIntervalMs == 60000

\* The options start() is called with: each field absent or a number.
LoopIntervalOptions == {Undefined, 1}
PlanIntervalOptions == {Undefined, 0, 1, 2}

SingleInit ==
  /\ sTriggers = <<>>
  /\ sLoopTimer = Null
  /\ sIsRunning = FALSE
  /\ planningFunction = NoUnit
  /\ lastPlanTime = 0
  /\ planIntervalMs = DefaultPlanIntervalMs
  /\ sTimers = {}
  /\ ticks = EmptyBag
  /\ sLast = ""

\* options?.loopIntervalMs ?? 5000
LoopIntervalOf(loopMs) == IF loopMs = Undefined THEN DefaultLoopIntervalMs ELSE loopMs

\* Lines 75-77 of start(): a truthy options.planIntervalMs is stored.
StoredPlanInterval(planMs) ==
  IF planMs # Undefined /\ planMs # 0 THEN planMs ELSE planIntervalMs

\* start(options)
SingleStart(loopMs, planMs) ==
  /\ planIntervalMs' = StoredPlanInterval(planMs)
  /\ IF sIsRunning
     THEN /\ sLast' = "start_ignored"
          /\ UNCHANGED <<sTriggers, sLoopTimer, sIsRunning, planningFunction,
                         lastPlanTime, sTimers, ticks>>
     ELSE /\ Cardinality(sTimers) < MaxTimers
          /\ sIsRunning' = TRUE
          /\ lastPlanTime' = now
          /\ sLast' = "start"
          /\ sLoopTimer' = FreshTimer({t.id : t \in sTimers})
          /\ sTimers' = sTimers \cup {[id |-> FreshTimer({t.id : t \in sTimers}),
                                       ms |-> LoopIntervalOf(loopMs)]}
          /\ UNCHANGED <<sTriggers, planningFunction, ticks>>

\* stop()
SingleStop ==
  IF ~sIsRunning
  THEN /\ sLast' = "stop_ignored"
       /\ UNCHANGED <<sTriggers, sLoopTimer, sIsRunning, planningFunction,
                      lastPlanTime, planIntervalMs, sTimers, ticks>>
  ELSE /\ sTimers' = IF sLoopTimer # Null
                     THEN {t \in sTimers : t.id # sLoopTimer} ELSE sTimers
       /\ sLoopTimer' = Null
       /\ sIsRunning' = FALSE
       /\ lastPlanTime' = 0
       /\ sLast' = "stop"
       /\ UNCHANGED <<sTriggers, planningFunction, planIntervalMs, ticks>>

\* registerTrigger(trigger)
SingleRegisterTrigger(u) ==
  /\ Len(sTriggers) < MaxTriggers
  /\ sTriggers' = Append(sTriggers, u)
  /\ sLast' = "registerTrigger"
  /\ UNCHANGED <<sLoopTimer, sIsRunning, planningFunction, lastPlanTime,
                 planIntervalMs, sTimers, ticks>>

\* setPlanningFunction(planningFunction)
SetPlanningFunction(p) ==
  /\ planningFunction' = p
  /\ sLast' = "set_planning_function"
  /\ UNCHANGED <<sTriggers, sLoopTimer, sIsRunning, lastPlanTime, planIntervalMs,
                 sTimers, ticks>>

\* The interval callback from index i of executeTriggers()'s for-of loop to
\* its next await or its end. After the last trigger, lines 105-106: the
\* planning function is invoked when one is set and the plan interval has
\* elapsed. The result is <<frames to suspend, tag>>.
TickFrom(i) ==
  IF i <= Len(sTriggers)
  THEN <<{[pc |-> "trigger", i |-> i]}, "trigger">>
  ELSE IF planningFunction # NoUnit /\ now - lastPlanTime >= planIntervalMs
  THEN <<{[pc |-> "planning", unit |-> planningFunction, currentTime |-> now]},
         "planning">>
  ELSE <<{}, "tick">>

\* The interval t fires.
SingleTick(t) ==
  /\ t \in sTimers
  /\ BagCardinality(ticks) < MaxBatches
  /\ ticks' = ticks (+) SetToBag(TickFrom(1)[1])
  /\ sLast' = TickFrom(1)[2]
  /\ UNCHANGED <<sTriggers, sLoopTimer, sIsRunning, planningFunction, lastPlanTime,
                 planIntervalMs, sTimers>>

\* The trigger awaited by the callback at frame f settles (a rejection is
\* logged as trigger_error) and the callback runs on.
SingleTriggerSettle(f) ==
  /\ BagIn(f, ticks) /\ f.pc = "trigger"
  /\ ticks' = (ticks (-) SetToBag({f})) (+) SetToBag(TickFrom(f.i + 1)[1])
  /\ sLast' = TickFrom(f.i + 1)[2]
  /\ UNCHANGED <<sTriggers, sLoopTimer, sIsRunning, planningFunction, lastPlanTime,
                 planIntervalMs, sTimers>>

\* The planning function awaited by the callback at frame f settles: lines
\* 109-114 when it resolves, the catch of lines 115-121 when it rejects.
SinglePlanningSettle(f) ==
  /\ BagIn(f, ticks) /\ f.pc = "planning"
  /\ ticks' = ticks (-) SetToBag({f})
  /\ IF f.unit = "planFail"
     THEN /\ sLast' = "planning_error"
          /\ lastPlanTime' = lastPlanTime
     ELSE /\ sLast' = "planning_executed"
          /\ lastPlanTime' = f.currentTime
  /\ UNCHANGED <<sTriggers, sLoopTimer, sIsRunning, planningFunction,
                 planIntervalMs, sTimers>>

SingleNext ==
  \/ \E loopMs \in LoopIntervalOptions, planMs \in PlanIntervalOptions :
       SingleStart(loopMs, planMs)
         /\ UNCHANGED <<loopVars, now, plannerVars, updateReturn, replanVars, cadVars, wireVars>>
  \/ SingleStop /\ UNCHANGED <<loopVars, now, plannerVars, updateReturn, replanVars, cadVars, wireVars>>
  \/ \E u \in TriggerUnits :
       SingleRegisterTrigger(u)
         /\ UNCHANGED <<loopVars, now, plannerVars, updateReturn, replanVars, cadVars, wireVars>>
  \/ \E p \in PlanningUnits :
       SetPlanningFunction(p)
         /\ UNCHANGED <<loopVars, now, plannerVars, updateReturn, replanVars, cadVars, wireVars>>
  \/ \E t \in sTimers :
       SingleTick(t) /\ UNCHANGED <<loopVars, now, plannerVars, updateReturn, replanVars, cadVars, wireVars>>
  \/ \E f \in BagToSet(ticks) :
       SingleTriggerSettle(f)
         /\ UNCHANGED <<loopVars, now, plannerVars, updateReturn, replanVars, cadVars, wireVars>>
  \/ \E f \in BagToSet(ticks) :
       SinglePlanningSettle(f)
         /\ UNCHANGED <<loopVars, now, plannerVars, updateReturn, replanVars, cadVars, wireVars>>
  \/ Tick /\ UNCHANGED <<loopVars, plannerVars, updateReturn, replanVars, singleVars, cadVars, wireVars>>

\* ------------------------------------------- the two-timer loop on a clock
\* The two-timer loop run against a clock, as under fake timers: an interval
\* armed at time a with period p fires at a + p, a + 2p, ...; the units
\* complete at once, so every invocation a firing starts is over before time
\* moves on or another call is made.
TriggerInterval == 1
PlanningInterval == 2
MaxElapsed == 4

CadenceInit ==
  /\ elapsed = 0
  /\ due = [h \in {} |-> 0]
  /\ startedAt = 0
  /\ invoked = [k \in 1..MaxTriggers |-> 0]
  /\ planned = 0
  /\ steady = FALSE

\* An interval's period under a swapped pair of constructor arguments.
IntervalOfSwapped(fn) == IF fn = "triggers" THEN PlanningInterval ELSE TriggerInterval

\* The period setInterval is given at lines 75, 81 and 131.
IntervalOf(fn) == IF fn = "triggers" THEN TriggerInterval ELSE PlanningInterval

\* No invocation is in flight.
Idle == batches = EmptyBag /\ planRuns = EmptyBag

\* The runtime's timer table after a call that armed or cleared intervals: a
\* new handle fires one period from now, a kept one when it was due.
DueAfter ==
  due' = [h \in {t.id : t \in timers'} |->
            IF h \in TimerIds
            THEN due[h]
            ELSE elapsed + IntervalOf((CHOOSE t \in timers' : t.id = h).fn)]

\* The invocation counts once a call of executeTriggers() has come to frame f.
Counted(f) ==
  IF f.over THEN [k \in 1..MaxTriggers |-> invoked[k] + f.calls[k]] ELSE invoked

CadStart ==
  /\ Idle
  /\ Start
  /\ DueAfter
  /\ IF isRunning
     THEN UNCHANGED <<startedAt, invoked, planned, steady>>
     ELSE /\ startedAt' = elapsed
          /\ invoked' = [k \in 1..MaxTriggers |-> 0]
          /\ planned' = 0
          /\ steady' = TRUE
  /\ UNCHANGED elapsed

CadStop ==
  /\ Idle
  /\ Stop
  /\ DueAfter
  /\ UNCHANGED <<elapsed, startedAt, invoked, planned, steady>>

CadRegisterTrigger(u) ==
  /\ Idle
  /\ RegisterTrigger(u)
  /\ steady' = (steady /\ ~isRunning)
  /\ UNCHANGED <<elapsed, due, startedAt, invoked, planned>>

CadSetPlanningCallback(p) ==
  /\ Idle
  /\ SetPlanningCallback(p)
  /\ DueAfter
  /\ steady' = (steady /\ ~isRunning)
  /\ UNCHANGED <<elapsed, startedAt, invoked, planned>>

\* The interval t is due and fires.
CadFire(t) ==
  /\ t \in timers
  /\ due[t.id] = elapsed
  /\ due' = [due EXCEPT ![t.id] = elapsed + IntervalOf(t.fn)]
  /\ IF t.fn = "triggers"
     THEN /\ TriggerFire(t)
          /\ invoked' = Counted(LoopFrom(NewFrame, 1))
          /\ planned' = planned
     ELSE /\ PlanningFire(t)
          /\ invoked' = invoked
          /\ planned' = planned + (IF planningCallback # NoUnit THEN 1 ELSE 0)
  /\ UNCHANGED <<elapsed, startedAt, steady>>

CadTriggerSettle(f) ==
  /\ TriggerSettle(f)
  /\ invoked' = Counted(AfterUnit(f, triggers[f.i]))
  /\ UNCHANGED <<elapsed, due, startedAt, planned, steady>>

CadPlanningSettle(p) ==
  /\ PlanningSettle(p)
  /\ UNCHANGED cadVars

\* Time moves on once nothing is due and nothing is in flight.
Advance ==
  /\ elapsed < MaxElapsed
  /\ Idle
  /\ \A t \in timers : due[t.id] > elapsed
  /\ elapsed' = elapsed + 1
  /\ UNCHANGED <<loopVars, due, startedAt, invoked, planned, steady>>

CadenceNext ==
  \/ CadStart /\ UNCHANGED <<now, plannerVars, updateReturn, replanVars, singleVars, wireVars>>
  \/ CadStop /\ UNCHANGED <<now, plannerVars, updateReturn, replanVars, singleVars, wireVars>>
  \/ \E u \in TriggerUnits :
       CadRegisterTrigger(u)
         /\ UNCHANGED <<now, plannerVars, updateReturn, replanVars, singleVars, wireVars>>
  \/ \E p \in PlanningUnits :
       CadSetPlanningCallback(p)
         /\ UNCHANGED <<now, plannerVars, updateReturn, replanVars, singleVars, wireVars>>
  \/ \E t \in timers :
       CadFire(t) /\ UNCHANGED <<now, plannerVars, updateReturn, replanVars, singleVars, wireVars>>
  \/ \E f \in BagToSet(batches) :
       CadTriggerSettle(f)
         /\ UNCHANGED <<now, plannerVars, updateReturn, replanVars, singleVars, wireVars>>
  \/ \E p \in BagToSet(planRuns) :
       CadPlanningSettle(p)
         /\ UNCHANGED <<now, plannerVars, updateReturn, replanVars, singleVars, wireVars>>
  \/ Advance /\ UNCHANGED <<now, plannerVars, updateReturn, replanVars, singleVars, wireVars>>

\* --------------------------------------------------- initAutonomousPlugin
\* index.ts wires one two-timer loop to one stateless planner and keeps the
\* current plan in the runtime's cache.
MaxInFlight == 1     \* callbacks of one kind suspended at one time
MaxWiredPlans == 3   \* plans the wired planner generates

\* What the cache holds under a key nothing was stored under.
NoCachedLoop == [cached |-> FALSE]

\* new AutonomousLoop(triggerInterval, planningInterval)
NewLoop ==
  [triggers |-> 0, planningCallback |-> FALSE, loopTimer |-> Null,
   planningTimer |-> Null, isRunning |-> FALSE]

\* The handles setInterval gives start(): the trigger interval, then the
\* planning interval.
LoopHandle == 1
PlanningHandle == 2

\* start() on a loop object.
WiredStart(loop) ==
  IF loop.isRunning THEN loop
  ELSE [loop EXCEPT !.isRunning = TRUE,
                    !.loopTimer = LoopHandle,
                    !.planningTimer = IF loop.planningCallback THEN PlanningHandle
                                      ELSE Null]

\* The intervals stop() clears on a loop object.
Cleared(loop) ==
  IF ~loop.isRunning THEN {} ELSE {loop.loopTimer, loop.planningTimer} \ {Null}

\* When generatePlan() is called the clock shows what it last showed, or a
\* millisecond has passed: none or all twelve of its reads give the old reading.
WiredTicks == IF now < MaxClock THEN {0, 12} ELSE {12}

\* What Math.random() gives the wired planner: the same number each time, so
\* that the clock alone decides whether two plan ids are equal.
WiredDraws == {0}

\* JSON.parse(JSON.stringify(plan)): the data of the plan, not the object.
Parsed(plan) ==
  IF plan = NoPlan THEN NoPlan
  ELSE [id |-> plan.id, subtasks |-> plan.subtasks, status |-> plan.status,
        createdAt |-> plan.createdAt, updatedAt |-> plan.updatedAt,
        metadata |-> plan.metadata]

WireInit ==
  /\ wiring = [state |-> "new"]
  /\ wLoop = NewLoop
  /\ wTimers = {}
  /\ store = [autonomousLoop |-> NoCachedLoop, currentPlan |-> NoPlan]
  /\ wTriggerRuns = EmptyBag
  /\ wPlanRuns = EmptyBag
  /\ ended = FALSE

\* initAutonomousPlugin(runtime): the settings say enabled or not, and the
\* runtime has or lacks setCache, getCache and registerEvent.
InitAutonomousPlugin(enabled, setCache, getCache, registerEvent) ==
  /\ wiring.state = "new"
  /\ IF ~enabled
     THEN /\ wiring' = [state |-> "disabled"]
          /\ UNCHANGED <<wLoop, wTimers, store>>
     ELSE LET autonomousLoop == NewLoop
              wired == [autonomousLoop EXCEPT !.planningCallback = TRUE,
                                              !.triggers = 1]
          IN /\ wiring' = [state |-> "on", setCache |-> setCache,
                           getCache |-> getCache, registerEvent |-> registerEvent]
             /\ store' = [store EXCEPT !.autonomousLoop =
                            IF setCache THEN [cached |-> TRUE, loop |-> autonomousLoop]
                            ELSE NoCachedLoop]
             /\ wLoop' = WiredStart(wired)
             /\ wTimers' = {WiredStart(wired).loopTimer,
                            WiredStart(wired).planningTimer} \ {Null}
  /\ UNCHANGED <<now, replans, wTriggerRuns, wPlanRuns, ended>>

\* The planning interval fires: executePlanningCallback() calls the planning
\* callback, which asks for the last message and suspends.
WiredPlanningFire ==
  /\ PlanningHandle \in wTimers
  /\ wLoop.planningCallback
  /\ BagCardinality(wPlanRuns) < MaxInFlight
  /\ wPlanRuns' = wPlanRuns (+) SetToBag({[pc |-> "state"]})
  /\ UNCHANGED <<now, replans, wiring, wLoop, wTimers, store, wTriggerRuns, ended>>

\* The planning callback goes on from an await at which it reads or writes
\* what others share. "state": getMemories() and composeState() are over; with
\* no message (found is false) the callback returns, otherwise generatePlan()
\* builds a plan, r what Math.random() gives it. "plan": the plan is written
\* to the cache. "cached": the write is over, and monitorPlan() logs the
\* counts.
WiredPlanningStep(f, found, k, r) ==
  /\ f \in BagToSet(wPlanRuns)
  /\ CASE f.pc = "state" ->
            IF found
            THEN /\ replans < MaxWiredPlans
                 /\ wPlanRuns' = (wPlanRuns (-) SetToBag({f}))
                      (+) SetToBag({[pc |-> "plan",
                                     plan |-> StatelessGeneratePlan(replans + 1, k, r)]})
                 /\ replans' = replans + 1
                 /\ now' = DateNow(k, 12)
                 /\ UNCHANGED store
            ELSE /\ wPlanRuns' = wPlanRuns (-) SetToBag({f})
                 /\ UNCHANGED <<store, replans, now>>
       [] f.pc = "plan" ->
            /\ IF wiring.setCache
               THEN /\ store' = [store EXCEPT !.currentPlan = Parsed(f.plan)]
                    /\ wPlanRuns' = (wPlanRuns (-) SetToBag({f}))
                         (+) SetToBag({[pc |-> "cached", plan |-> f.plan]})
               ELSE /\ wPlanRuns' = wPlanRuns (-) SetToBag({f})
                    /\ UNCHANGED store
            /\ UNCHANGED <<replans, now>>
       [] f.pc = "cached" ->
            /\ wPlanRuns' = wPlanRuns (-) SetToBag({f})
            /\ UNCHANGED <<store, replans, now>>
  /\ UNCHANGED <<wiring, wLoop, wTimers, wTriggerRuns, ended>>

\* The trigger interval fires: executeTriggers() calls the replanning
\* trigger, which reads the cached plan and suspends; without getCache it
\* returns at once.
WiredTriggerFire ==
  /\ LoopHandle \in wTimers
  /\ wLoop.triggers = 1
  /\ BagCardinality(wTriggerRuns) < MaxInFlight
  /\ wTriggerRuns' =
       IF wiring.getCache
       THEN wTriggerRuns (+) SetToBag({[pc |-> "read",
                                        currentPlan |-> store.currentPlan]})
       ELSE wTriggerRuns
  /\ UNCHANGED <<now, replans, wiring, wLoop, wTimers, store, wPlanRuns, ended>>

\* replanIfNeeded(state, currentPlan) as the trigger sees it: the plan it gave,
\* or a new plan that carries the lineage of the plan it gave.
Replanned(plan, k, r) ==
  IF HasFailedTasks(plan)
  THEN [StatelessGeneratePlan(replans + 1, k, r) EXCEPT
          !.metadata = Lineage(StatelessGeneratePlan(replans + 1, k, r), plan)]
  ELSE plan

\* A trigger that writes its plan only over the plan it read.
TriggerWritesIfUnchanged(f) ==
  /\ f.updatedPlan.id # f.currentPlan.id
  /\ wiring.setCache
  /\ store.currentPlan # NoPlan
  /\ store.currentPlan.id = f.currentPlan.id

\* updatedPlan.id !== currentPlan.id && cacheAdapter.setCache
TriggerWrites(f) ==
  /\ f.updatedPlan.id # f.currentPlan.id
  /\ wiring.setCache

\* The replanning trigger goes on from an await at which it reads or writes
\* what others share. "read": getCache(), getMemories() and composeState()
\* are over; with no plan or no message (found is false) the trigger returns,
\* otherwise replanIfNeeded() runs. "replanned": it is over, and a plan with
\* another id is written to the cache.
WiredTriggerStep(f, found, k, r) ==
  /\ f \in BagToSet(wTriggerRuns)
  /\ CASE f.pc = "read" ->
            IF f.currentPlan # NoPlan /\ found
            THEN /\ HasFailedTasks(f.currentPlan) => replans < MaxWiredPlans
                 /\ wTriggerRuns' = (wTriggerRuns (-) SetToBag({f}))
                      (+) SetToBag({[pc |-> "replanned",
                                     currentPlan |-> f.currentPlan,
                                     updatedPlan |-> Replanned(f.currentPlan, k, r)]})
                 /\ replans' = IF HasFailedTasks(f.currentPlan) THEN replans + 1
                               ELSE replans
                 /\ now' = IF HasFailedTasks(f.currentPlan) THEN DateNow(k, 12)
                           ELSE now
                 /\ UNCHANGED store
            ELSE /\ wTriggerRuns' = wTriggerRuns (-) SetToBag({f})
                 /\ UNCHANGED <<store, replans, now>>
       [] f.pc = "replanned" ->
            /\ wTriggerRuns' = wTriggerRuns (-) SetToBag({f})
            /\ store' = IF TriggerWrites(f)
                        THEN [store EXCEPT !.currentPlan = Parsed(f.updatedPlan)]
                        ELSE store
            /\ UNCHANGED <<replans, now>>
  /\ UNCHANGED <<wiring, wLoop, wTimers, wPlanRuns, ended>>

\* Whoever carries out the plan records in the cached plan that its first
\* subtask failed.
SubtaskFails ==
  /\ store.currentPlan # NoPlan
  /\ store.currentPlan.subtasks[1].status # "failed"
  /\ store' = [store EXCEPT !.currentPlan.subtasks[1].status = "failed"]
  /\ UNCHANGED <<now, replans, wiring, wLoop, wTimers, wTriggerRuns, wPlanRuns,
                 ended>>

\* The runtime raises RUN_ENDED: the handler reads the cached loop, builds a
\* loop from what it read and stops the loop it built.
RunEnded ==
  /\ wiring.state = "on"
  /\ wiring.registerEvent
  /\ LET cachedLoop == IF wiring.getCache THEN store.autonomousLoop
                       ELSE NoCachedLoop
         newLoop == NewLoop
     IN wTimers' = IF cachedLoop.cached THEN wTimers \ Cleared(newLoop)
                   ELSE wTimers
  /\ ended' = TRUE
  /\ UNCHANGED <<now, replans, wiring, wLoop, store, wTriggerRuns, wPlanRuns>>

wireOthers == <<loopVars, plannerVars, updateReturn, callerPlan, replanCall,
                replanReturn, rootCreatedAt, singleVars, cadVars>>

WiringNext ==
  \/ \E enabled, setCache, getCache, registerEvent \in BOOLEAN :
       InitAutonomousPlugin(enabled, setCache, getCache, registerEvent)
         /\ UNCHANGED wireOthers
  \/ WiredPlanningFire /\ UNCHANGED wireOthers
  \/ \E f \in BagToSet(wPlanRuns), found \in BOOLEAN, k \in WiredTicks,
        r \in WiredDraws :
       WiredPlanningStep(f, found, k, r) /\ UNCHANGED wireOthers
  \/ WiredTriggerFire /\ UNCHANGED wireOthers
  \/ \E f \in BagToSet(wTriggerRuns), found \in BOOLEAN, k \in WiredTicks,
        r \in WiredDraws :
       WiredTriggerStep(f, found, k, r) /\ UNCHANGED wireOthers
  \/ SubtaskFails /\ UNCHANGED wireOthers
  \/ RunEnded /\ UNCHANGED wireOthers

Init == LoopInit /\ PlannerInit /\ ReplanInit /\ SingleInit /\ CadenceInit
        /\ WireInit
        /\ now = 1 /\ updateReturn = [called |-> FALSE]

SpecLoop == Init /\ [][LoopNext]_vars

SpecPlanner == Init /\ [][PlannerNext]_vars

SpecReplan == Init /\ [][ReplanNext]_vars

SpecSingle == Init /\ [][SingleNext]_vars

SpecCadence == Init /\ [][CadenceNext]_vars

SpecWiring == Init /\ [][WiringNext]_vars

\* ------------------------------------------------------------------ claims
TriggerTimers == {t \in timers : t.fn = "triggers"}
PlanningTimers == {t \in timers : t.fn = "planning"}

\* C1: whatever sequence of start/stop/setPlanningCallback calls was made, the
\* runtime holds at most one armed trigger interval and at most one armed
\* planning interval of the loop; while the loop runs it holds exactly one
\* trigger interval, so a second start() has armed nothing.
C1_OneTimerPair ==
  /\ Cardinality(TriggerTimers) = (IF isRunning THEN 1 ELSE 0)
  /\ Cardinality(PlanningTimers) <= 1

\* start() was called on a running loop that has both timers armed.
C1_Witness ==
  /\ diag = "AutonomousLoop is already running"
  /\ isRunning
  /\ Cardinality(TriggerTimers) = 1
  /\ Cardinality(PlanningTimers) = 1

\* The failing units among the first n registered.
Failing(n) == {k \in 1..n : triggers[k] = "fail"}

\* C2: an executeTriggers() call that has ended has invoked every unit
\* registered by then exactly once, the failing ones included, and has
\* reported one error per failing unit.
C2_TriggerIsolation ==
  lastBatch # NoFrame =>
    /\ \A k \in 1..lastBatch.len : lastBatch.calls[k] = 1
    /\ lastBatch.reported = Cardinality(Failing(lastBatch.len))

\* A tick over three units, the middle one failing, has ended.
C2_Witness ==
  /\ lastBatch # NoFrame
  /\ lastBatch.len = 3
  /\ triggers = <<"ok", "fail", "ok">>
  /\ lastBatch.reported = 1

\* A plan() invocation returns in this step.
PlanReturns == BagCardinality(planCalls') < BagCardinality(planCalls)

\* C3: at most one plan() invocation is past the guard at any time, and a
\* plan() call made while one is suspended is skipped: it logs the skip and
\* leaves the slot, the plans, the flag and the suspended invocation as they
\* were.
C3_PlanReentrancy ==
  [][/\ BagCardinality(planCalls') <= 1
     /\ (plog' = "planning_skipped" /\ plog # "planning_skipped") =>
          /\ planCalls # EmptyBag
          /\ UNCHANGED <<now, currentPlan, lastRetired, issued, planCalls,
                         isPlanningInProgress, planResult>>]_vars

\* A plan() call has just been skipped while another is suspended on a plan.
C3_Witness ==
  /\ plog = "planning_skipped"
  /\ BagCardinality(planCalls) = 1
  /\ currentPlan # NoPlan

\* C4: whenever a non-skipped plan() invocation returns, whatever failed on
\* its way, its promise resolves and isPlanningInProgress is false.
C4_PlanAlwaysResolves ==
  [][PlanReturns => (~isPlanningInProgress' /\ planResult' = "resolved")]_vars

\* A cycle whose replacement generation failed has returned.
C4_Witness ==
  /\ plog = "planning_error"
  /\ planCalls = EmptyBag
  /\ ~isPlanningInProgress
  /\ planResult = "resolved"
  /\ currentPlan # NoPlan

\* C5: a cycle in which generatePlan failed returns with the slot as it was
\* when the cycle began: empty, or the same plan with the same status.
C5_FailedGenerationKeepsSlot ==
  [][\A f \in BagToSet(planCalls) :
       (PlanReturns /\ f.err /\ f.pc \in {"generatePlan", "handleDiscrepancies"}) =>
         IF f.start.ref = 0
         THEN currentPlan' = NoPlan
         ELSE /\ currentPlan' # NoPlan
              /\ currentPlan'.ref = f.start.ref
              /\ currentPlan'.status = f.start.status]_vars

\* C6: the current plan is none or a plan whose status is active.
C6_CurrentPlanLive ==
  currentPlan = NoPlan \/ currentPlan.status = "active"

AllCompleted(plan) ==
  \A j \in 1..Len(plan.subtasks) : plan.subtasks[j].status = "completed"

\* The cycle of frame f has completed the plan it started with, emptied the
\* slot and generated nothing.
CompletedAndCleared(f) ==
  /\ currentPlan' = NoPlan
  /\ lastRetired' = [ref |-> f.start.ref, status |-> "completed"]
  /\ Len(issued') = f.nIssued

Returned == replanReturn.kind = "resolved"

FailedCount(plan) ==
  Cardinality({j \in 1..Len(plan.subtasks) : plan.subtasks[j].status = "failed"})

C8_ReplanOnFailure ==
  (Returned /\ FailedCount(replanReturn.arg) > 0) =>
    /\ replanReturn.res.ref # replanReturn.arg.ref
    /\ replanReturn.res.metadata.defined
    /\ replanReturn.res.metadata.previousPlanId = replanReturn.arg.id
    /\ Len(replanReturn.res.subtasks) >= 1
    /\ \A j \in 1..Len(replanReturn.res.subtasks) :
         replanReturn.res.subtasks[j].status = "pending"

\* A caller's plan with foreign metadata and a failed subtask was replaced.
C8_Witness ==
  /\ Returned
  /\ replanReturn.arg.metadata = ForeignMeta
  /\ replanReturn.arg.subtasks[1].status = "completed"
  /\ replanReturn.arg.subtasks[2].status = "failed"
  /\ replanReturn.res.ref = 2
  /\ replanReturn.res.id # replanReturn.arg.id

\* C9: every plan a replan returned carries as metadata.originalPlanCreatedAt
\* the createdAt of the plan the chain started with.
C9_LineageKeepsRoot ==
  (Returned /\ replanReturn.gen) =>
    replanReturn.res.metadata.originalPlanCreatedAt = rootCreatedAt

\* An updateSubtaskStatus() call is made in this step; its id and result are
\* in updateReturn'.
UpdateCalled == updateReturn' # updateReturn

\* C11: an updateSubtaskStatus() call made when there is no current plan, or
\* with an id no subtask of the current plan has, returns false and leaves
\* the slot, every subtask and every updatedAt as they were.
C11_UpdateAbsentIsNoOp ==
  [][(/\ UpdateCalled
      /\ currentPlan = NoPlan \/ updateReturn'.id \notin SubtaskIds(currentPlan)) =>
       /\ ~updateReturn'.ok
       /\ UNCHANGED <<currentPlan, lastRetired, issued, planCalls,
                      isPlanningInProgress>>]_vars

\* An update with an unknown id has failed on a current plan.
C11_Witness ==
  /\ updateReturn.called
  /\ ~updateReturn.ok
  /\ updateReturn.id = NoSuchId
  /\ currentPlan # NoPlan

\* C12: an updateSubtaskStatus() call that names a subtask of the current
\* plan returns true, leaves the other subtasks as they were, and sets the
\* plan's updatedAt and the named subtask's updatedAt to the time of the call.
C12_UpdateBumpsBoth ==
  [][(/\ UpdateCalled
      /\ currentPlan # NoPlan /\ updateReturn'.id \in SubtaskIds(currentPlan)) =>
       LET j == CHOOSE i \in 1..Len(currentPlan.subtasks) :
                  currentPlan.subtasks[i].id = updateReturn'.id IN
       /\ updateReturn'.ok
       /\ \A i \in 1..Len(currentPlan.subtasks) :
            i # j => currentPlan'.subtasks[i] = currentPlan.subtasks[i]
       /\ currentPlan'.updatedAt = now
       /\ UpdatedAtOf(currentPlan'.subtasks[j]) = now]_vars

\* C13: monitorPlan() and replanIfNeeded() called with no plan reject; the
\* call builds no plan, leaves no call suspended and returns nothing.
C13_NullPlanRejects ==
  [][(replanReturn' # replanReturn /\ callerPlan = NoPlan) =>
       /\ replanReturn'.kind = "rejected"
       /\ replanReturn'.error = "Invalid plan provided"
       /\ UNCHANGED <<replans, replanCall, callerPlan>>]_vars

\* replanIfNeeded() has rejected a null plan and nothing was generated.
C13_Witness ==
  /\ replanReturn.kind = "rejected"
  /\ replanReturn.call = "replanIfNeeded"
  /\ replans = 0
  /\ callerPlan = NoPlan

\* C14: after a monitorPlan() call the plan object is as it was handed over:
\* same id, status, timestamps, metadata and subtasks.
C14_MonitorReadOnly ==
  [][(replanReturn' # replanReturn /\ replanReturn'.kind = "monitored") =>
       callerPlan' = replanReturn'.arg]_vars

\* A replanned plan with a failed and a completed subtask has been monitored.
C14_Witness ==
  /\ replanReturn.kind = "monitored"
  /\ replanReturn.log[6] = 1
  /\ replanReturn.log[5] = 1
  /\ callerPlan.metadata.defined
  /\ callerPlan.ref = 2

\* C15: when replanIfNeeded() has returned a new plan, the plan object it was
\* given has status abandoned.
C15_ReplacedIsAbandoned ==
  (Returned /\ replanReturn.gen) => replanReturn.old.status = "abandoned"

\* C16: a start() call made while the loop is running (it logs start_ignored)
\* changes nothing of the scheduler: the running flag, the armed interval,
\* the registered units and the plan interval are as before, whatever
\* options it was given.
C16_StartWhileRunningNoOp ==
  [][sLast' = "start_ignored" =>
       UNCHANGED <<sIsRunning, sLoopTimer, sTimers, sTriggers, planningFunction,
                   planIntervalMs, lastPlanTime>>]_vars

\* An interval callback starts an invocation in this step: a new
\* executeTriggers() call or a new planning invocation is in flight.
TickBegins ==
  \/ BagCardinality(batches') > BagCardinality(batches)
  \/ BagCardinality(planRuns') > BagCardinality(planRuns)

\* C17: while the loop is stopped no interval of it is armed and both handles
\* are null, and no trigger tick and no planning tick begins.
C17_StopCancelsTimers ==
  /\ [](~isRunning => (timers = {} /\ loopTimer = Null /\ planningTimer = Null))
  /\ [][~isRunning => ~TickBegins]_vars

\* stop() ended a run in which both kinds of tick had fired, one trigger tick
\* being still in flight.
C17_Witness ==
  /\ diag = "Stopping autonomous loop"
  /\ ~isRunning
  /\ timers = {}
  /\ lastPlanRun # NoFrame
  /\ batches # EmptyBag

\* C18: stop() leaves the trigger registry and the planning unit as they
\* were; the start() that follows arms the trigger interval, and the planning
\* interval when a planning unit is set; a trigger tick's call, once ended,
\* has invoked every registered unit once, and a planning tick invokes the
\* planning unit that is set.
C18_StopKeepsRegistry ==
  /\ [][(isRunning /\ ~isRunning') => UNCHANGED <<triggers, planningCallback>>]_vars
  /\ [][(~isRunning /\ isRunning') =>
          /\ UNCHANGED <<triggers, planningCallback>>
          /\ [id |-> loopTimer', fn |-> "triggers"] \in timers'
          /\ planningCallback # NoUnit =>
               [id |-> planningTimer', fn |-> "planning"] \in timers']_vars
  /\ [][BagCardinality(planRuns') > BagCardinality(planRuns) =>
          planRuns' = planRuns (+) SetToBag({planningCallback})]_vars
  /\ [](lastBatch # NoFrame =>
          \A k \in 1..lastBatch.len : lastBatch.calls[k] = 1)

\* stop() has ended a run with three trigger units and a planning unit
\* registered; they are still registered.
C18_Witness ==
  /\ diag = "Stopping autonomous loop"
  /\ ~isRunning
  /\ Len(triggers) = 3
  /\ planningCallback # NoUnit
  /\ lastBatch # NoFrame /\ lastBatch.len = 3

\* C19: a setPlanningCallback() call that changes the unit, made on a running
\* loop with no planning interval, arms exactly one, due one planning period
\* later, and moves no other interval; made otherwise it arms nothing, clears
\* nothing and moves no interval's next firing. A planning firing invokes
\* once the unit that is set then, and no other.
C19_SetPlanningCallback ==
  /\ [][planningCallback' # planningCallback =>
          IF isRunning /\ planningTimer = Null
          THEN /\ planningTimer' \notin TimerIds
               /\ timers' = timers \cup {[id |-> planningTimer', fn |-> "planning"]}
               /\ due'[planningTimer'] = elapsed + PlanningInterval
               /\ \A h \in TimerIds : due'[h] = due[h]
          ELSE UNCHANGED <<timers, planningTimer, due>>]_vars
  /\ [][BagCardinality(planRuns') > BagCardinality(planRuns) =>
          planRuns' = planRuns (+) SetToBag({planningCallback})]_vars
  /\ [](Cardinality(PlanningTimers) <= 1)

\* Within one run the planning interval first invoked planOk and now, the
\* unit having been swapped while the interval stayed armed, invokes planFail.
C19_Witness ==
  /\ isRunning
  /\ planned = 2
  /\ lastPlanRun # NoFrame /\ lastPlanRun.unit = "planOk"
  /\ planRuns = SetToBag({"planFail"})

\* Nothing is in flight and no armed interval is due.
Quiescent == Idle /\ \A t \in timers : due[t.id] > elapsed

PlanningFails ==
  /\ BagCardinality(planRuns') < BagCardinality(planRuns)
  /\ lastPlanRun'.unit = "planFail"

\* C21: the step in which a planning invocation fails reports the failure
\* once and leaves the running flag, both handles, the armed intervals, the
\* trigger registry and every executeTriggers() call in flight as they were,
\* as the step of a successful invocation does; so while the loop runs its
\* trigger interval stays armed whatever the planning unit did.
C21_PlanningFailureContained ==
  /\ [][PlanningFails =>
          /\ lastPlanRun'.reported = 1
          /\ UNCHANGED <<isRunning, loopTimer, planningTimer, timers, triggers,
                         planningCallback, batches, lastBatch>>]_vars
  /\ []((lastPlanRun # NoFrame /\ lastPlanRun.unit = "planFail" /\ isRunning) =>
         (loopTimer \in TimerIds /\ planningTimer \in TimerIds))

\* After a failed planning invocation the loop runs with both intervals
\* armed and a trigger tick over two units has begun and is at its second.
C21_Witness ==
  /\ lastPlanRun # NoFrame /\ lastPlanRun.unit = "planFail"
  /\ lastPlanRun.reported = 1
  /\ isRunning /\ loopTimer \in TimerIds /\ planningTimer \in TimerIds
  /\ \E f \in BagToSet(batches) : f.i = 2 /\ f.calls[1] = 1 /\ f.calls[2] = 1

\* C22: an executeTriggers() call suspended at unit i has invoked the units
\* registered first to i-th once each, in that order, and none registered
\* after the i-th: unit i+1 of the tick is not invoked while unit i of the
\* tick is still pending.
C22_SequentialInOrder ==
  \A f \in BagToSet(batches) :
    /\ f.i \in 1..Len(triggers)
    /\ \A k \in 1..MaxTriggers : f.calls[k] = (IF k <= f.i THEN 1 ELSE 0)

\* A tick over three units is suspended at the second, the first having
\* failed: the third has not been invoked.
C22_Witness ==
  /\ triggers = <<"fail", "ok", "ok">>
  /\ \E f \in BagToSet(batches) :
       f.i = 2 /\ f.calls[1] = 1 /\ f.calls[2] = 1 /\ f.calls[3] = 0 /\ f.reported = 1

\* The invocations an executeTriggers() call at frame f has made of the
\* first n units.
RECURSIVE CallsUpTo(_, _)
CallsUpTo(f, n) == IF n = 0 THEN 0 ELSE f.calls[n] + CallsUpTo(f, n - 1)

\* The invocations of frame f that are pending: those it has made less those
\* it has finished awaiting (it is awaiting its i-th).
PendingOf(f) == CallsUpTo(f, MaxTriggers) - (f.i - 1)

\* C23 as claimed: at most one trigger-unit invocation and at most one
\* planning-unit invocation is in flight at any time, each executeTriggers()
\* call in flight holding one pending invocation.
C23_OneInvocationInFlight ==
  /\ BagCardinality(batches) <= 1
  /\ BagCardinality(planRuns) <= 1

\* C23 amended: one trigger tick never has two of its trigger-unit
\* invocations in flight, and one planning firing starts at most one
\* planning-unit invocation; the invocations in flight are as many as the
\* timer firings whose callbacks have not ended.
C23_OneInvocationPerFiring ==
  /\ [](\A f \in BagToSet(batches) : PendingOf(f) = 1)
  /\ [][BagCardinality(planRuns') <= BagCardinality(planRuns) + 1]_vars
  /\ [][BagCardinality(batches') <= BagCardinality(batches) + 1]_vars

\* Two trigger ticks overlap, the earlier suspended at its second unit and
\* the later at its first, while two planning invocations are pending.
C23_Witness ==
  /\ Len(triggers) = 2
  /\ \E f, g \in BagToSet(batches) : f.i = 2 /\ g.i = 1
  /\ BagCardinality(planRuns) = 2

\* An interval callback of the single-timer loop invokes a trigger unit in
\* this step: a frame awaiting a trigger appears.
SingleTriggerInvoked ==
  \E g \in BagToSet(ticks') :
    g.pc = "trigger" /\ CopiesIn(g, ticks') > CopiesIn(g, ticks)

\* C24: while the loop is stopped, from the return of stop() to the next
\* start(), no registered trigger unit is invoked, whatever tick was
\* suspended when stop() was called.
C24_NoTriggerAfterStop ==
  [][~sIsRunning => ~SingleTriggerInvoked]_vars

\* A trigger tick can begin now.
TriggerTickEnabled ==
  ENABLED (\E t \in timers :
             TriggerFire(t) /\ UNCHANGED <<now, plannerVars, updateReturn,
                                           replanVars, singleVars, cadVars>>)

\* A planning tick can begin now.
PlanningTickEnabled ==
  ENABLED (\E t \in timers :
             PlanningFire(t) /\ UNCHANGED <<now, plannerVars, updateReturn,
                                            replanVars, singleVars, cadVars>>)

\* An executeTriggers() call begins in this step.
TriggerTickBegins ==
  \/ BagCardinality(batches') > BagCardinality(batches)
  \/ (lastBatch' # lastBatch /\ batches' = batches)

\* C25: whatever invocations are pending and however long they have been,
\* while the loop runs its trigger interval can fire, and its planning
\* interval too when one is armed (up to MaxBatches calls of a kind in
\* flight); the tick that begins leaves the pending calls where they are and
\* visits the registry from its first unit, and a planning firing invokes
\* the planning unit.
C25_HungUnitStallsOwnTick ==
  /\ []((isRunning /\ BagCardinality(batches) < MaxBatches) => TriggerTickEnabled)
  /\ []((isRunning /\ planningTimer # Null /\ BagCardinality(planRuns) < MaxBatches)
          => PlanningTickEnabled)
  /\ [][TriggerTickBegins =>
          IF triggers = <<>>
          THEN batches' = batches /\ lastBatch'.len = 0
          ELSE batches' = batches (+) SetToBag({LoopFrom(NewFrame, 1)})]_vars
  /\ [][BagCardinality(planRuns') > BagCardinality(planRuns) =>
          planRuns' = planRuns (+) SetToBag({planningCallback})]_vars

\* A tick is stuck at its first unit while another is at the third unit of
\* the registry and a planning invocation is pending.
C25_Witness ==
  /\ isRunning
  /\ Len(triggers) = 3
  /\ \E f, g \in BagToSet(batches) : f.i = 1 /\ g.i = 3
  /\ planRuns # EmptyBag

\* The frame an executeTriggers() call at frame f ends with when every unit
\* it awaits settles and the registry stays as it is.
RECURSIVE RestOfTick(_)
RestOfTick(f) == IF f.over THEN f ELSE RestOfTick(AfterUnit(f, triggers[f.i]))

\* C26: when a unit is registered while executeTriggers() calls are in
\* flight, none of those calls goes on to invoke the new unit: it is first
\* invoked by the next tick.
C26_RegisteredForNextTick ==
  [][Len(triggers') > Len(triggers) =>
       \A f \in BagToSet(batches) :
         (RestOfTick(f)').calls[Len(triggers')] = 0]_vars

\* The interval callback, past its last trigger, invokes the planning
\* function (lines 105-108).
PlanningDue == TickFrom(Len(sTriggers) + 1)[2] = "planning"

\* The planning invocation of frame f ends in this step with a rejection.
SinglePlanningFails(f) ==
  /\ f.pc = "planning" /\ f.unit = "planFail"
  /\ CopiesIn(f, ticks') < CopiesIn(f, ticks)

\* C27: once an invocation of the planning function has failed, a tick does
\* not invoke the planning function again before a plan interval has
\* elapsed since that invocation.
C27_NoRetryAfterFailure ==
  [][\A f \in BagToSet(ticks) :
       (SinglePlanningFails(f) /\ sIsRunning' /\ now' - f.currentTime < planIntervalMs')
         => ~PlanningDue']_vars

\* A plan() call is skipped in this step.
PlanSkipped == plog' = "planning_skipped" /\ plog # "planning_skipped"

\* C28: a skipped plan() call finds the flag up and leaves it up, leaves the
\* current plan and the plans retired and generated untouched, adds no
\* invocation to those in flight and logs no error; the flag is up exactly
\* while an invocation is in flight, it goes down only in the step in which
\* that invocation returns, and no invocation begins in that step.
C28_SkipChangesNothing ==
  /\ [][PlanSkipped =>
          /\ isPlanningInProgress /\ isPlanningInProgress'
          /\ UNCHANGED <<currentPlan, lastRetired, issued, planCalls, planResult, now>>]_vars
  /\ [](isPlanningInProgress <=> planCalls # EmptyBag)
  /\ [][(isPlanningInProgress /\ ~isPlanningInProgress') =>
          (PlanReturns /\ planCalls' = EmptyBag)]_vars

\* A plan() call was skipped while the invocation in flight waits for
\* handleDiscrepancies(), which has installed the second plan.
C28_Witness ==
  /\ plog = "planning_skipped"
  /\ isPlanningInProgress
  /\ \E f \in BagToSet(planCalls) : f.pc = "handleDiscrepancies"
  /\ currentPlan # NoPlan /\ currentPlan.ref = 2

AllPending(plan) ==
  \A j \in 1..Len(plan.subtasks) : plan.subtasks[j].status = "pending"

\* The cycle of frame f, which began with an empty slot and generated a
\* plan, returns in this step.
GenerationCycleEnds(f) ==
  /\ f.pc = "generatePlan" /\ ~f.err
  /\ CopiesIn(f, planCalls') < CopiesIn(f, planCalls)

HasCritical(discrepancies) ==
  \E j \in 1..Len(discrepancies) : discrepancies[j][1] = "CRITICAL:"

\* The cycle of frame f, whose drift check reported a critical discrepancy,
\* returns in this step.
CriticalCycleEnds(f) ==
  /\ f.pc = "handleDiscrepancies" /\ HasCritical(f.discrepancies)
  /\ CopiesIn(f, planCalls') < CopiesIn(f, planCalls)

MinorOnly(f) ==
  /\ ~f.err
  /\ Len(f.discrepancies) > 0
  /\ ~HasCritical(f.discrepancies)

\* The cycle of frame f goes from its drift check to handleDiscrepancies()
\* in this step, or returns from handleDiscrepancies() in this step.
MinorCycleHandles(f) ==
  /\ f.pc = "checkPlanProgress" /\ MinorOnly(f)
  /\ CopiesIn(f, planCalls') < CopiesIn(f, planCalls)
MinorCycleEnds(f) ==
  /\ f.pc = "handleDiscrepancies" /\ MinorOnly(f)
  /\ CopiesIn(f, planCalls') < CopiesIn(f, planCalls)

\* C31 as claimed: a cycle whose drift check reported only non-critical
\* discrepancies handles them and returns with the plan it began with in the
\* slot, its status and its subtasks as they were.
C31_MinorKeepsPlan ==
  [][\A f \in BagToSet(planCalls) :
       /\ MinorCycleHandles(f) => UNCHANGED currentPlan
       /\ MinorCycleEnds(f) =>
            /\ currentPlan' # NoPlan
            /\ currentPlan'.ref = f.start.ref
            /\ currentPlan'.status = f.start.status
            /\ currentPlan'.subtasks = currentPlan.subtasks]_vars

\* C31 amended: such a cycle generates nothing and abandons nothing, and
\* handleDiscrepancies() leaves the slot as it is; at the return the plan is
\* still in the slot exactly as it was before the return step, unless every
\* subtask is completed then, in which case it is completed and the slot
\* emptied.
C31_MinorKeepsPlanAmended ==
  [][\A f \in BagToSet(planCalls) :
       /\ MinorCycleHandles(f) =>
            /\ UNCHANGED <<currentPlan, lastRetired, issued>>
            /\ plog' = "handle_discrepancies"
       /\ MinorCycleEnds(f) =>
            /\ Len(issued') = f.nIssued
            /\ currentPlan # NoPlan /\ currentPlan.ref = f.start.ref
            /\ currentPlan.status = f.start.status
            /\ IF AllCompleted(currentPlan)
               THEN CompletedAndCleared(f)
               ELSE UNCHANGED <<currentPlan, lastRetired>>]_vars

\* A cycle whose drift check reported a minor discrepancy has returned and
\* the first plan is still current and active, one subtask in progress.
C31_Witness ==
  /\ plog = "handle_discrepancies"
  /\ planCalls = EmptyBag /\ ~isPlanningInProgress
  /\ currentPlan # NoPlan /\ currentPlan.ref = 1 /\ currentPlan.status = "active"
  /\ currentPlan.subtasks[1].status = "in_progress"
  /\ Len(issued) = 1

\* C32: the ids of the plans one planner has generated are pairwise distinct.
C32_PlanIdsDistinct ==
  \A i, j \in 1..Len(issued) : i # j => issued[i] # issued[j]

\* The plan was last updated two days ago or earlier.
Outdated(plan) == now - plan.updatedAt >= TwoDays

\* C33: a replanIfNeeded() call given an outdated plan none of whose subtasks
\* has failed returns another plan object with another id.
C33_ReplanWhenOutdated ==
  (Returned /\ FailedCount(replanReturn.arg) = 0 /\ Outdated(replanReturn.arg)) =>
    /\ replanReturn.res.ref # replanReturn.arg.ref
    /\ replanReturn.res.id # replanReturn.arg.id

\* The subtasks among the first n of the plan that have the status, counted
\* one by one.
RECURSIVE Tally(_, _, _)
Tally(plan, status, n) ==
  IF n = 0 THEN 0
  ELSE Tally(plan, status, n - 1) + (IF plan.subtasks[n].status = status THEN 1 ELSE 0)

\* C34: what a monitorPlan() call logged is the plan's id, the number of its
\* subtasks and, in this order, the numbers of its pending, in-progress,
\* completed and failed subtasks; the four add up to the number of subtasks.
C34_MonitorCounts ==
  replanReturn.kind = "monitored" =>
    LET plan == replanReturn.arg
        log == replanReturn.log
        n == Len(plan.subtasks) IN
    /\ log[1] = plan.id /\ log[2] = n
    /\ log[3] = Tally(plan, "pending", n)
    /\ log[4] = Tally(plan, "in_progress", n)
    /\ log[5] = Tally(plan, "completed", n)
    /\ log[6] = Tally(plan, "failed", n)
    /\ log[3] + log[4] + log[5] + log[6] = n

\* A plan with one completed and one failed subtask was monitored: the log
\* says 0 pending, 0 in progress, 1 completed, 1 failed.
C34_Witness ==
  /\ replanReturn.kind = "monitored"
  /\ replanReturn.arg.subtasks[1].status = "completed"
  /\ replanReturn.arg.subtasks[2].status = "failed"
  /\ replanReturn.log[2] = 2
  /\ <<replanReturn.log[3], replanReturn.log[4], replanReturn.log[5],
       replanReturn.log[6]>> = <<0, 0, 1, 1>>

\* C35: the subtasks of the stateful planner's current plan have pairwise
\* distinct ids, and every id in a subtask's dependencies is the id of a
\* subtask of that plan.
C35_DependenciesResolve ==
  currentPlan # NoPlan =>
    /\ \A i, j \in 1..Len(currentPlan.subtasks) :
         i # j => currentPlan.subtasks[i].id # currentPlan.subtasks[j].id
    /\ \A j \in 1..Len(currentPlan.subtasks) :
         \A d \in 1..Len(currentPlan.subtasks[j].dependencies) :
           currentPlan.subtasks[j].dependencies[d] \in SubtaskIds(currentPlan)

\* The planning callback of frame f comes back from composeState() with a
\* message and calls generatePlan().
PlanningGenerates(f) ==
  /\ f.pc = "state"
  /\ CopiesIn(f, wPlanRuns') < CopiesIn(f, wPlanRuns)
  /\ replans' = replans + 1

\* The planning callback of frame f goes on from an await.
PlanningCallbackSteps(f) ==
  CopiesIn(f, wPlanRuns') < CopiesIn(f, wPlanRuns)

\* C36: a planning tick of the wired loop calls generatePlan() only when the
\* cache holds no current plan, and when the cache holds a current plan no
\* step of the planning callback changes what the cache holds.
C36_GenerateOnlyWithoutPlan ==
  [][\A f \in BagToSet(wPlanRuns) :
       /\ PlanningGenerates(f) => store.currentPlan = NoPlan
       /\ (PlanningCallbackSteps(f) /\ store.currentPlan # NoPlan) =>
            store'.currentPlan = store.currentPlan]_vars

\* C37: once the RUN_ENDED handler has run, the loop initAutonomousPlugin
\* started is not running and neither of its intervals is armed, so that no
\* trigger tick and no planning tick fires.
C37_StoppedAfterRunEnded ==
  ended =>
    /\ ~wLoop.isRunning
    /\ LoopHandle \notin wTimers
    /\ PlanningHandle \notin wTimers
    /\ ~ENABLED WiredTriggerFire
    /\ ~ENABLED WiredPlanningFire

\* The replanning trigger of frame f comes back from replanIfNeeded() with a
\* plan of another id, in a runtime that has setCache.
TriggerOverwrites(f) ==
  /\ f.pc = "replanned"
  /\ CopiesIn(f, wTriggerRuns') < CopiesIn(f, wTriggerRuns)
  /\ f.updatedPlan.id # f.currentPlan.id
  /\ wiring.setCache

\* The planning callback of frame f comes back from generatePlan(), in a
\* runtime that has setCache.
PlanningInstalls(f) ==
  /\ f.pc = "plan"
  /\ CopiesIn(f, wPlanRuns') < CopiesIn(f, wPlanRuns)
  /\ wiring.setCache

\* C38: the last writer of the cached current plan wins. The plan a trigger
\* comes back with takes the slot whatever the slot holds by then, and its
\* previousPlanId is the id of the plan the trigger read, not of the plan it
\* replaces; the plan a planning callback generated takes the slot whatever
\* triggers are under way.
C38_LastWriterWins ==
  [][/\ \A f \in BagToSet(wTriggerRuns) :
          TriggerOverwrites(f) =>
            /\ store'.currentPlan = Parsed(f.updatedPlan)
            /\ store'.currentPlan.metadata.previousPlanId = f.currentPlan.id
     /\ \A g \in BagToSet(wPlanRuns) :
          PlanningInstalls(g) => store'.currentPlan = Parsed(g.plan)]_vars

\* The race has happened: a planning callback has installed its plan Q and
\* waits for the write to end, no trigger is under way, and the slot holds a
\* successor of a plan generated before Q.
C38_Witness ==
  /\ wTriggerRuns = EmptyBag
  /\ store.currentPlan # NoPlan
  /\ store.currentPlan.metadata.defined
  /\ \E g \in BagToSet(wPlanRuns) :
       /\ g.pc = "cached"
       /\ store.currentPlan.metadata.previousPlanId[1] < g.plan.id[1]

\* C39: the loop holds a trigger handle exactly when it is running and a
\* planning handle exactly when it is running with a planning unit set; the
\* runtime's armed intervals are the ones the loop holds a handle of, each of
\* its kind, so that none is armed once stop() has run.
C39_TimersTrackRunning ==
  /\ (loopTimer # Null) <=> isRunning
  /\ (planningTimer # Null) <=> (isRunning /\ planningCallback # NoUnit)
  /\ TriggerTimers =
       IF isRunning THEN {[id |-> loopTimer, fn |-> "triggers"]} ELSE {}
  /\ PlanningTimers =
       IF isRunning /\ planningCallback # NoUnit
       THEN {[id |-> planningTimer, fn |-> "planning"]} ELSE {}
  /\ timers = TriggerTimers \cup PlanningTimers

\* stop() has ended a run of a loop that has a planning unit, after a planning
\* tick had ended.
C39_Witness ==
  /\ diag = "Stopping autonomous loop"
  /\ planningCallback # NoUnit
  /\ lastPlanRun # NoFrame
  /\ loopTimer = Null /\ planningTimer = Null
  /\ TimerIds = {}

\* A step of a plan() invocation that is not skipped: it enters, goes on from
\* an await or returns.
PlanCycleSteps == planCalls' # planCalls

\* The drift check of some invocation under way reports a critical
\* discrepancy.
CriticalReported ==
  \E f \in BagToSet(planCalls) : HasCritical(f.discrepancies)

\* C40: the plan in the slot gives way to another plan only in the step in
\* which a cycle comes back from a drift check that reported a critical
\* discrepancy. While the current plan has a failed subtask and no drift
\* check reports a critical discrepancy, no step of a plan() cycle changes
\* the plan, retires a plan or generates one: the plan stays current, active
\* and uncompleted, until updateSubtaskStatus() changes a subtask.
C40_FailedPlanStaysCurrent ==
  /\ [][(currentPlan # NoPlan /\ currentPlan' # NoPlan
         /\ currentPlan'.ref # currentPlan.ref) =>
          \E f \in BagToSet(planCalls) :
            /\ f.pc = "checkPlanProgress" /\ ~f.err
            /\ HasCritical(f.discrepancies)
            /\ CopiesIn(f, planCalls') < CopiesIn(f, planCalls)]_vars
  /\ [][(PlanCycleSteps /\ currentPlan # NoPlan /\ HasFailedTasks(currentPlan)
         /\ ~CriticalReported) =>
          UNCHANGED <<currentPlan, lastRetired, issued>>]_vars

\* A cycle whose drift check reported a minor discrepancy has run to its end
\* over a plan whose first subtask is completed and whose second has failed:
\* the plan is still the current plan, active.
C40_Witness ==
  /\ planCalls = EmptyBag /\ ~isPlanningInProgress
  /\ plog = "handle_discrepancies"
  /\ currentPlan # NoPlan /\ currentPlan.ref = 1 /\ currentPlan.status = "active"
  /\ currentPlan.subtasks[1].status = "completed"
  /\ currentPlan.subtasks[2].status = "failed"
  /\ Len(issued) = 1

====
